---------------------------- MODULE Spec2Model ----------------------------
(***************************************************************************)
(* organize-by-mtime (src/src/main.rs): a single-pass tool that walks one  *)
(* or more root directories, collects the matching files into a batch,     *)
(* tracks the batch's extreme modification time and, at every directory of *)
(* depth <= 2 and at the end of each walk, moves the batch to              *)
(* <output>/<year>/<stripped path>.                                        *)
(*                                                                         *)
(* Modelling conventions.                                                  *)
(*  - A path is the sequence of its components, as Path::components()      *)
(*    yields them: "/" is the root component of an absolute path, "." the  *)
(*    leading current-directory component, "" stands for the trailing      *)
(*    separator that PathBuf::push("") leaves behind.                      *)
(*  - The filesystem is the pair (files, dirs), keyed by resolved paths    *)
(*    (Canon).  Symbolic links and special files are not modelled.         *)
(*  - A timestamp is [d |-> days since 1970-01-01, s |-> second of day],   *)
(*    the (date, time) pair NaiveDateTime::from_timestamp builds; it is    *)
(*    ordered lexicographically, as NaiveDateTime is.  (1 << 40 seconds    *)
(*    does not fit TLC's 32-bit integers.)                                 *)
(*  - WalkDir is lazy: a directory is opened when it is yielded and its    *)
(*    entries are read by the following call of next(), after the loop     *)
(*    body ran for the directory entry.  The order of the entries of a     *)
(*    directory is the filesystem's, hence arbitrary.                      *)
(***************************************************************************)
EXTENDS Integers, Sequences, FiniteSets, TLC

VARIABLES
    args,         \* struct Args, with the initial filesystem (constant)
    files,        \* resolved path -> [id, mtime] of each regular file
    dirs,         \* resolved paths of the directories
    pc,           \* position of main: "start", "main", "walk", "exit", "panic"
    agepolicy,    \* main's agepolicy
    dirIdx,       \* number of roots of args.arg_directory already processed
    stack,        \* the walker's stack of directory listings still to yield
    curfiles,     \* process_dir: the batch, a sequence of <<src, dst>>
    datetime,     \* process_dir: the batch's extreme mtime
    errors,       \* process_dir: its error count
    main_errors,  \* main: its error count
    exit_code,    \* the process's exit code (-1 while running)
    stdout,       \* the "move src dst" lines printed, as <<src, dst>>
    fs0,          \* history: the filesystem before the run
    curtimes,     \* history: mtime read for each element of curfiles
    under,        \* history: matching files under the root when its walk began
    yielded,      \* history: the entries the walker yielded
    calls         \* history: the calls of move_batch

vars == <<args, files, dirs, pc, agepolicy, dirIdx, stack, curfiles, datetime,
          errors, main_errors, exit_code, stdout, fs0, curtimes, under,
          yielded, calls>>

---------------------------------------------------------------------------
(* Bounds of the model.                                                    *)

\* --strip ranges over 0..MaxStrip
MaxStrip == 4
\* at most MaxRoots <directory> arguments
MaxRoots == 2

---------------------------------------------------------------------------
(* Sequences.                                                              *)

Range(s) == {s[i] : i \in 1..Len(s)}

Prefix(s, n) == SubSeq(s, 1, n)

IsPrefix(p, s) == Len(p) <= Len(s) /\ Prefix(s, Len(p)) = p

Drop(s, n) == IF n >= Len(s) THEN <<>> ELSE SubSeq(s, n + 1, Len(s))

Last(s) == s[Len(s)]

---------------------------------------------------------------------------
(* Timestamps: chrono's NaiveDateTime.                                     *)

\* NaiveDateTime::from_timestamp(0, 0)
Epoch == [d |-> 0, s |-> 0]

\* NaiveDateTime::from_timestamp(1i64 << 40, 0): 2^40 = 12725829 * 86400 + 2176
FarFuture == [d |-> 12725829, s |-> 2176]

\* derived Ord of NaiveDateTime: by date, then by time
DtLeq(x, y) == x.d < y.d \/ (x.d = y.d /\ x.s <= y.s)

\* cmp::min / cmp::max
cmp_min(x, y) == IF DtLeq(x, y) THEN x ELSE y

cmp_max(x, y) == IF DtLeq(x, y) THEN y ELSE x

\* Datelike::year(): the proleptic Gregorian year of the date
year(dt) ==
    LET z   == dt.d + 719468
        era == z \div 146097
        doe == z - era * 146097
        yoe == (doe - doe \div 1460 + doe \div 36524 - doe \div 146096) \div 365
        doy == doe - (365 * yoe + yoe \div 4 - yoe \div 100)
        mp  == (5 * doy + 2) \div 153
    IN  yoe + era * 400 + (IF mp < 10 THEN 0 ELSE 1)

---------------------------------------------------------------------------
(* Paths: std::path.                                                       *)

\* Path::is_absolute
IsAbsolute(p) == Len(p) > 0 /\ p[1] = "/"

\* PathBuf::push: an absolute argument replaces the path; an empty one
\* leaves a trailing separator
push(buf, p) ==
    IF IsAbsolute(p) THEN p
    ELSE IF p = <<>> THEN (IF buf = <<>> THEN <<>> ELSE Append(buf, ""))
    ELSE buf \o p

\* the path without "." components and trailing separator: the file it names
Canon(p) == SelectSeq(p, LAMBDA c : c # "." /\ c # "")

HasTrailingSep(p) == Len(p) > 0 /\ Last(p) = ""

\* components().next() n times, then as_path()
StripComponents(p, n) == Drop(p, n)

\* Path::parent: None for the empty path and for the root
HasParent(p) == Canon(p) # <<>> /\ Canon(p) # <<"/">>

Parent(p) == Prefix(Canon(p), Len(Canon(p)) - 1)

---------------------------------------------------------------------------
(* Glob patterns: glob::Pattern with *, ? and literal characters.          *)

Chars(str) ==
    CASE str = "*"               -> <<"*">>
      [] str = "*.jpg"           -> <<"*", ".", "j", "p", "g">>
      [] str = "*_thumb.jpg"     -> <<"*", "_", "t", "h", "u", "m", "b", ".", "j", "p", "g">>
      [] str = "?.txt"           -> <<"?", ".", "t", "x", "t">>
      [] str = "x.txt"           -> <<"x", ".", "t", "x", "t">>
      [] str = "y.txt"           -> <<"y", ".", "t", "x", "t">>
      [] str = "z.txt"           -> <<"z", ".", "t", "x", "t">>
      [] str = "w.txt"           -> <<"w", ".", "t", "x", "t">>
      [] str = "photo.jpg"       -> <<"p", "h", "o", "t", "o", ".", "j", "p", "g">>
      [] str = "photo_thumb.jpg" -> <<"p", "h", "o", "t", "o", "_", "t", "h", "u", "m", "b", ".", "j", "p", "g">>
      [] str = "notes.txt"       -> <<"n", "o", "t", "e", "s", ".", "t", "x", "t">>

RECURSIVE GlobChars(_, _)
GlobChars(p, s) ==
    IF p = <<>> THEN s = <<>>
    ELSE IF p[1] = "*" THEN
        \E k \in 0..Len(s) : GlobChars(Tail(p), Drop(s, k))
    ELSE IF s = <<>> THEN FALSE
    ELSE IF p[1] = "?" THEN GlobChars(Tail(p), Tail(s))
    ELSE p[1] = s[1] /\ GlobChars(Tail(p), Tail(s))

\* Pattern::matches
matches(pattern, name) == GlobChars(Chars(pattern), Chars(name))

---------------------------------------------------------------------------
(* The filesystem: std::fs.  fs is [files, dirs].                          *)

\* Path::is_file: a trailing separator after a regular file is ENOTDIR
is_file(fs, p) == Canon(p) \in DOMAIN fs.files /\ ~HasTrailingSep(p)

\* Path::is_dir: the working directory and "/" always exist
is_dir(fs, p) == Canon(p) \in fs.dirs \cup {<<>>, <<"/">>}

\* Path::exists
exists(fs, p) == is_file(fs, p) \/ is_dir(fs, p)

\* the identity of the file at p, 0 when there is none
ContentAt(fs, p) ==
    IF Canon(p) \in DOMAIN fs.files THEN fs.files[Canon(p)].id ELSE 0

\* fs::metadata + FileTime::from_last_modification_time + from_timestamp
mtime_of(fs, p) == fs.files[Canon(p)].mtime

\* fs::create_dir_all on the resolved path c, from its k-th prefix on: the
\* missing ancestors are made first; a regular file in the way is an error
\* and the directories made before it stay
RECURSIVE create_dir_from(_, _, _)
create_dir_from(fs, c, k) ==
    IF k > Len(c) THEN [ok |-> TRUE, dirs |-> fs.dirs]
    ELSE IF is_dir(fs, Prefix(c, k)) THEN create_dir_from(fs, c, k + 1)
    ELSE IF Prefix(c, k) \in DOMAIN fs.files THEN [ok |-> FALSE, dirs |-> fs.dirs]
    ELSE create_dir_from([fs EXCEPT !.dirs = @ \cup {Prefix(c, k)}], c, k + 1)

create_dir_all(fs, p) == create_dir_from(fs, Canon(p), 1)

\* a copy for a rename: the source stays where it was
rename_copy(fs, src, dst) ==
    IF \/ ~is_file(fs, src)
       \/ HasTrailingSep(dst)
       \/ is_dir(fs, dst)
       \/ ~is_dir(fs, Parent(dst))
    THEN [ok |-> FALSE, files |-> fs.files]
    ELSE [ok |-> TRUE,
          files |-> [q \in DOMAIN fs.files \cup {Canon(dst)} |->
                        IF q = Canon(dst) THEN fs.files[Canon(src)]
                        ELSE fs.files[q]]]

\* fs::rename of a regular file: fails when the source is gone, when the
\* destination carries a trailing separator or is a directory, or when the
\* destination's parent is no directory; replaces a regular file at dst
rename(fs, src, dst) ==
    IF \/ ~is_file(fs, src)
       \/ HasTrailingSep(dst)
       \/ is_dir(fs, dst)
       \/ ~is_dir(fs, Parent(dst))
    THEN [ok |-> FALSE, files |-> fs.files]
    ELSE IF Canon(src) = Canon(dst) THEN [ok |-> TRUE, files |-> fs.files]
    ELSE [ok |-> TRUE,
          files |-> [q \in (DOMAIN fs.files \ {Canon(src)}) \cup {Canon(dst)} |->
                        IF q = Canon(dst) THEN fs.files[Canon(src)]
                        ELSE fs.files[q]]]

---------------------------------------------------------------------------
(* move_single_file and move_batch.                                        *)

\* no look at the destination: lines 113-116 missing
dst_taken_never(fs, dst, force) == FALSE

\* line 113: the destination is taken and may not be overwritten
dst_taken(fs, dst, force) == ~force /\ exists(fs, dst)

\* move_single_file: [ok, fs]
move_single_file(fs, src, dst, force) ==
    IF HasParent(dst) THEN
        LET made == create_dir_all(fs, Parent(dst))
            fs1  == [fs EXCEPT !.dirs = made.dirs]
        IN  IF ~made.ok THEN [ok |-> FALSE, fs |-> fs1]
            ELSE IF dst_taken(fs1, dst, force) THEN [ok |-> FALSE, fs |-> fs1]
            ELSE LET r == rename(fs1, src, dst)
                 IN  [ok |-> r.ok, fs |-> [fs1 EXCEPT !.files = r.files]]
    ELSE [ok |-> FALSE, fs |-> fs]

\* lines 136-138: the final destination of one element of the batch
final_path(output_dir, dt, dst) ==
    push(push(output_dir, <<ToString(year(dt))>>), dst)

\* the move carried out whatever --dry-run says: line 140 missing
do_move_always(dry_run) == TRUE

\* line 140: whether the move is carried out
do_move(dry_run) == ~dry_run

\* lines 141-144: the error count after one move
count_error(errs, ok) == IF ok THEN errs ELSE errs + 1

\* the for loop of move_batch from element k on; st is [fs, errors, log]
\* where log records every element with what move_single_file did to it
RECURSIVE move_batch_from(_, _, _, _, _, _, _)
move_batch_from(batch, k, dt, output_dir, force, dry_run, st) ==
    IF k > Len(batch) THEN st
    ELSE
        LET src == batch[k][1]
            dst == batch[k][2]
            fin == final_path(output_dir, dt, dst)
            r   == IF do_move(dry_run)
                   THEN move_single_file(st.fs, src, fin, force)
                   ELSE [ok |-> TRUE, fs |-> st.fs]
            rec == [src       |-> src,
                    dst       |-> dst,
                    fin       |-> fin,
                    attempted |-> do_move(dry_run),
                    existed   |-> exists(st.fs, fin),
                    ok        |-> r.ok,
                    srcBefore |-> ContentAt(st.fs, src),
                    dstBefore |-> ContentAt(st.fs, fin),
                    srcAfter  |-> ContentAt(r.fs, src),
                    dstAfter  |-> ContentAt(r.fs, fin),
                    filesSame |-> r.fs.files = st.fs.files,
                    dirsSame  |-> r.fs.dirs = st.fs.dirs]
        IN  move_batch_from(batch, k + 1, dt, output_dir, force, dry_run,
                            [fs     |-> r.fs,
                             errors |-> count_error(st.errors, r.ok),
                             log    |-> Append(st.log, rec)])

\* the batch left as it is: line 147 missing
cleared_not(batch) == batch

\* line 147: batch.clear()
cleared(batch) == <<>>

\* move_batch: [fs, errors, log]; the caller's batch becomes cleared(batch)
move_batch(batch, dt, output_dir, force, dry_run, fs) ==
    move_batch_from(batch, 1, dt, output_dir, force, dry_run,
                    [fs |-> fs, errors |-> 0, log |-> <<>>])

---------------------------------------------------------------------------
(* process_dir.                                                            *)

\* lines 163-167: the include patterns, "*" when none is given
mps(match_patterns) ==
    IF match_patterns # <<>> THEN match_patterns ELSE <<"*">>

\* line 169
notps(not_match_patterns) == not_match_patterns

\* lines 184-186: any pattern of the list matches the file name
any_matches(patterns, name) ==
    \E i \in 1..Len(patterns) : matches(patterns[i], name)

\* "&&" for "||" at line 187
skip_file_and(matched, not_matched) == ~matched /\ not_matched

\* line 187: the file is passed over
skip_file(matched, not_matched) == ~matched \/ not_matched

\* whether process_dir adds the file named name to the batch
accepts(a, name) ==
    ~skip_file(any_matches(mps(a.flag_pattern), name),
               any_matches(notps(a.flag_not_pattern), name))

\* lines 174-177 and 215-218: the initial extreme of a batch
initial_datetime(policy) ==
    IF policy = "Newest" THEN Epoch ELSE FarFuture

\* lines 205-208: the extreme after a file of mtime dt joined the batch
update_datetime(policy, cur, dt) ==
    IF policy = "Newest" THEN cmp_max(cur, dt) ELSE cmp_min(cur, dt)

\* only the root moves the batch: "<= 0" for "<= 2" at line 212
flush_depth_root_only(depth) == depth <= 0

\* line 212: a directory of this depth moves the batch
flush_depth(depth) == depth <= 2

\* lines 196-201: the destination below <output>/<year>
stripped(path, strip) == push(<<>>, StripComponents(path, strip))

---------------------------------------------------------------------------
(* The walker: walkdir::WalkDir without sorting.                           *)

FS == [files |-> files, dirs |-> dirs]

\* read_dir: the entries of directory dir, as dir joined with each name
Children(fs, dir) ==
    {dir \o <<Last(q)>> : q \in {r \in DOMAIN fs.files \cup fs.dirs :
                                   /\ Len(r) = Len(Canon(dir)) + 1
                                   /\ IsPrefix(Canon(dir), r)}}

\* next() pops the listings that are exhausted
RECURSIVE Exhaust(_)
Exhaust(stk) ==
    IF stk = <<>> THEN stk
    ELSE IF Last(stk).entries = {} THEN Exhaust(Prefix(stk, Len(stk) - 1))
    ELSE stk

\* the stack after entry e was taken off its top listing
Taken(stk, e) ==
    [stk EXCEPT ![Len(stk)].entries = @ \ {e}]

\* the stack after directory e was yielded and the loop body left fs behind
Descend(stk, e, fs) ==
    Append(Taken(stk, e),
           [entries |-> Children(fs, e), depth |-> Last(stk).depth + 1])

\* the regular files below root (resolved paths)
FilesUnder(fs, root) ==
    {q \in DOMAIN fs.files : IsPrefix(Canon(root), q)}

---------------------------------------------------------------------------
(* main.                                                                   *)

\* lines 238-243
age_policy(oldest, newest) ==
    CASE ~oldest /\ ~newest -> "Default"
      [] oldest /\ ~newest  -> "Oldest"
      [] ~oldest /\ newest  -> "Newest"
      [] oldest /\ newest   -> "panic"

\* line 258
exit_status(errs) == IF errs > 0 THEN 1 ELSE 0

\* "errors = ..." for "errors += ..."
add_errors_overwrite(errs, n) == n

\* lines 213, 223 and 248: errors += ...
add_errors(errs, n) == errs + n

\* lines 229-243: --version prints and returns, both age flags panic
MainStart ==
    /\ pc = "start"
    /\ \/ /\ args.flag_version
          /\ pc' = "exit"
          /\ exit_code' = 0
          /\ UNCHANGED agepolicy
       \/ /\ ~args.flag_version
          /\ age_policy(args.flag_oldest, args.flag_newest) = "panic"
          /\ pc' = "panic"
          /\ exit_code' = 101
          /\ UNCHANGED agepolicy
       \/ /\ ~args.flag_version
          /\ age_policy(args.flag_oldest, args.flag_newest) # "panic"
          /\ agepolicy' = age_policy(args.flag_oldest, args.flag_newest)
          /\ pc' = "main"
          /\ UNCHANGED exit_code
    /\ UNCHANGED <<args, files, dirs, dirIdx, stack, curfiles, datetime, errors,
                   main_errors, stdout, fs0, curtimes, under, yielded, calls>>

\* lines 247-248 and 161-182: main calls process_dir for the next root
ProcessDirBegin ==
    /\ pc = "main"
    /\ dirIdx < Len(args.arg_directory)
    /\ LET dir == args.arg_directory[dirIdx + 1]
       IN  /\ stack' = Exhaust(<<[entries |-> IF exists(FS, dir) THEN {dir} ELSE {},
                                   depth   |-> 0]>>)
           /\ under' = {q \in FilesUnder(FS, dir) : accepts(args, Last(q))}
    /\ curfiles' = <<>>
    /\ curtimes' = <<>>
    /\ datetime' = initial_datetime(agepolicy)
    /\ errors' = 0
    /\ pc' = "walk"
    /\ UNCHANGED <<args, files, dirs, agepolicy, dirIdx, main_errors, exit_code,
                   stdout, fs0, yielded, calls>>

\* what the loop body leaves in the history for entry e
Entry(e, kind, added) ==
    [root      |-> dirIdx + 1,
     path      |-> e,
     kind      |-> kind,
     depth     |-> Last(stack).depth,
     added     |-> added,
     curBefore |-> curfiles,
     curAfter  |-> curfiles',
     dtBefore  |-> datetime,
     dtAfter   |-> datetime']

\* lines 183-189: a file that the patterns pass over
WalkFileSkipped ==
    /\ pc = "walk"
    /\ stack # <<>>
    /\ \E e \in Last(stack).entries :
        /\ is_file(FS, e)
        /\ ~accepts(args, Last(e))
        /\ stack' = Exhaust(Taken(stack, e))
        /\ UNCHANGED <<curfiles, datetime>>
        /\ yielded' = Append(yielded, Entry(e, "file", FALSE))
    /\ UNCHANGED <<args, files, dirs, pc, agepolicy, dirIdx, errors, main_errors,
                   exit_code, stdout, fs0, curtimes, under, calls>>

\* lines 183-208: a matching file joins the batch
WalkFileAdded ==
    /\ pc = "walk"
    /\ stack # <<>>
    /\ \E e \in Last(stack).entries :
        /\ is_file(FS, e)
        /\ accepts(args, Last(e))
        /\ curfiles' = Append(curfiles, <<e, stripped(e, args.flag_strip)>>)
        /\ curtimes' = Append(curtimes, mtime_of(FS, e))
        /\ datetime' = update_datetime(agepolicy, datetime, mtime_of(FS, e))
        /\ stack' = Exhaust(Taken(stack, e))
        /\ yielded' = Append(yielded, Entry(e, "file", TRUE))
    /\ UNCHANGED <<args, files, dirs, pc, agepolicy, dirIdx, errors, main_errors,
                   exit_code, stdout, fs0, under, calls>>

\* what a call of move_batch leaves in the history
Call(r, trigger) ==
    [root     |-> dirIdx + 1,
     trigger  |-> trigger,
     batch    |-> curfiles,
     times    |-> curtimes,
     datetime |-> datetime,
     errors   |-> r.errors,
     log      |-> r.log]

Lines(log) == [i \in 1..Len(log) |-> <<log[i].src, log[i].fin>>]

\* lines 210-219: a directory of depth <= 2 moves the batch and resets the
\* extreme; the walker then reads the directory
WalkDirFlush ==
    /\ pc = "walk"
    /\ stack # <<>>
    /\ \E e \in Last(stack).entries :
        /\ ~is_file(FS, e)
        /\ is_dir(FS, e)
        /\ flush_depth(Last(stack).depth)
        /\ LET r == move_batch(curfiles, datetime, args.flag_output_dir,
                               args.flag_force, args.flag_dry_run, FS)
           IN  /\ files' = r.fs.files
               /\ dirs' = r.fs.dirs
               /\ errors' = add_errors(errors, r.errors)
               /\ stdout' = stdout \o Lines(r.log)
               /\ calls' = Append(calls, Call(r, e))
               /\ stack' = Exhaust(Descend(stack, e, r.fs))
        /\ curfiles' = cleared(curfiles)
        /\ curtimes' = cleared(curtimes)
        /\ datetime' = initial_datetime(agepolicy)
        /\ yielded' = Append(yielded, Entry(e, "dir", FALSE))
    /\ UNCHANGED <<args, pc, agepolicy, dirIdx, main_errors, exit_code, fs0, under>>

\* lines 210-212: a deeper directory leaves the batch open
WalkDirDeep ==
    /\ pc = "walk"
    /\ stack # <<>>
    /\ \E e \in Last(stack).entries :
        /\ ~is_file(FS, e)
        /\ is_dir(FS, e)
        /\ ~flush_depth(Last(stack).depth)
        /\ stack' = Exhaust(Descend(stack, e, FS))
        /\ UNCHANGED <<curfiles, datetime>>
        /\ yielded' = Append(yielded, Entry(e, "dir", FALSE))
    /\ UNCHANGED <<args, files, dirs, pc, agepolicy, dirIdx, errors, main_errors,
                   exit_code, stdout, fs0, curtimes, under, calls>>

\* lines 222-224 and 248: the walk is over, the rest of the batch is moved and
\* process_dir's count is added to main's
ProcessDirEnd ==
    /\ pc = "walk"
    /\ stack = <<>>
    /\ LET r == move_batch(curfiles, datetime, args.flag_output_dir,
                           args.flag_force, args.flag_dry_run, FS)
       IN  /\ files' = r.fs.files
           /\ dirs' = r.fs.dirs
           /\ errors' = add_errors(errors, r.errors)
           /\ main_errors' = add_errors(main_errors, add_errors(errors, r.errors))
           /\ stdout' = stdout \o Lines(r.log)
           /\ calls' = Append(calls, Call(r, <<"end">>))
    /\ curfiles' = cleared(curfiles)
    /\ curtimes' = cleared(curtimes)
    /\ dirIdx' = dirIdx + 1
    /\ pc' = "main"
    /\ UNCHANGED <<args, agepolicy, stack, datetime, exit_code, fs0, under, yielded>>

\* lines 258-261: exit 1 when a move failed, 0 otherwise
MainExit ==
    /\ pc = "main"
    /\ dirIdx = Len(args.arg_directory)
    /\ exit_code' = exit_status(main_errors)
    /\ pc' = "exit"
    /\ UNCHANGED <<args, files, dirs, agepolicy, dirIdx, stack, curfiles, datetime,
                   errors, main_errors, stdout, fs0, curtimes, under, yielded, calls>>

Next ==
    \/ MainStart
    \/ ProcessDirBegin
    \/ WalkFileSkipped
    \/ WalkFileAdded
    \/ WalkDirFlush
    \/ WalkDirDeep
    \/ ProcessDirEnd
    \/ MainExit

---------------------------------------------------------------------------
(* The initial states: command lines and the trees they run on.            *)

\* modification times: 1969-12-31 12:00, 2020-01-01, 2021-06-01 and a day of
\* the year 36813, one year past FarFuture
T1969 == [d |-> -1, s |-> 43200]

T2020 == [d |-> 18262, s |-> 0]

T2021 == [d |-> 18779, s |-> 0]

TFar == [d |-> 12726229, s |-> 0]

\* marks a file that is not there
NoFile == [d |-> 0, s |-> -1]

\* the filesystem holding the files of spec, a set of [path, id, mtime], and
\* the directories above them and those of extra
MakeFS(spec, extra) ==
    LET paths == {f.path : f \in spec}
    IN  [files |-> [q \in paths |->
                      LET f == CHOOSE f \in spec : f.path = q
                      IN  [id |-> f.id, mtime |-> f.mtime]],
         dirs  |-> (UNION {{Prefix(q, k) : k \in 1..(Len(q) - 1)} : q \in paths}
                    \ {<<"/">>}) \cup extra]

Seqs(S, n) == UNION {[1..k -> S] : k \in 1..n}

PolicyFlags == {<<FALSE, FALSE>>, <<TRUE, FALSE>>, <<FALSE, TRUE>>}

\* one root, files at depths 1 to 4 with any of the modification times
WalkSlots ==
    << <<"a", "x.txt">>, <<"a", "sub", "y.txt">>, <<"a", "sub", "deep", "z.txt">>,
       <<"a", "sub", "deep", "more", "w.txt">> >>

WalkConfigs ==
    {[args |-> [arg_directory    |-> << <<"a">> >>,
                flag_oldest      |-> pf[1],
                flag_newest      |-> pf[2],
                flag_pattern     |-> <<>>,
                flag_not_pattern |-> <<>>,
                flag_output_dir  |-> <<"out">>,
                flag_strip       |-> 0,
                flag_dry_run     |-> FALSE,
                flag_force       |-> FALSE,
                flag_version     |-> FALSE],
      fs   |-> MakeFS({[path |-> WalkSlots[i], id |-> i, mtime |-> c[i]] :
                         i \in {j \in 1..4 : c[j] # NoFile}}, {<<"a">>})] :
     pf \in PolicyFlags, c \in [1..4 -> {NoFile, T1969, T2020, T2021, TFar}]}

\* one directory of pictures and notes under every choice of patterns
FilterFS ==
    MakeFS({[path |-> <<"a", "photo.jpg">>, id |-> 1, mtime |-> T2020],
            [path |-> <<"a", "photo_thumb.jpg">>, id |-> 2, mtime |-> T2021],
            [path |-> <<"a", "x.txt">>, id |-> 3, mtime |-> T1969],
            [path |-> <<"a", "sub", "notes.txt">>, id |-> 4, mtime |-> TFar]}, {})

FilterConfigs ==
    {[args |-> [arg_directory    |-> << <<"a">> >>,
                flag_oldest      |-> FALSE,
                flag_newest      |-> newest,
                flag_pattern     |-> inc,
                flag_not_pattern |-> exc,
                flag_output_dir  |-> <<"out">>,
                flag_strip       |-> 0,
                flag_dry_run     |-> FALSE,
                flag_force       |-> FALSE,
                flag_version     |-> FALSE],
      fs   |-> FilterFS] :
     newest \in BOOLEAN,
     inc \in {<<>>, <<"*.jpg">>, <<"?.txt">>, <<"*.jpg", "?.txt">>},
     exc \in {<<>>, <<"*_thumb.jpg">>, <<"*">>, <<"*_thumb.jpg", "?.txt">>}}

\* relative, two-component and absolute roots, with files whose stripped paths
\* coincide and, with taken, a file already at out/2020/x.txt
RootForms == { <<"a">>, <<"b", "c">>, <<"/", "r">> }

MoveFS(taken) ==
    MakeFS({[path |-> <<"a", "x.txt">>, id |-> 1, mtime |-> T2020],
            [path |-> <<"a", "s", "t", "p", "x.txt">>, id |-> 2, mtime |-> T2020],
            [path |-> <<"a", "s", "t", "q", "x.txt">>, id |-> 3, mtime |-> T2021],
            [path |-> <<"a", "s", "t", "q", "y.txt">>, id |-> 4, mtime |-> T2020],
            [path |-> <<"b", "c", "x.txt">>, id |-> 5, mtime |-> T2020],
            [path |-> <<"/", "r", "x.txt">>, id |-> 6, mtime |-> T2020]}
           \cup (IF taken
                 THEN {[path |-> <<"out", "2020", "x.txt">>, id |-> 7, mtime |-> T1969]}
                 ELSE {}), {})

MoveConfigs ==
    {[args |-> [arg_directory    |-> roots,
                flag_oldest      |-> FALSE,
                flag_newest      |-> FALSE,
                flag_pattern     |-> <<>>,
                flag_not_pattern |-> <<>>,
                flag_output_dir  |-> <<"out">>,
                flag_strip       |-> strip,
                flag_dry_run     |-> dry,
                flag_force       |-> force,
                flag_version     |-> FALSE],
      fs   |-> MoveFS(taken)] :
     roots \in Seqs(RootForms, MaxRoots), strip \in 0..MaxStrip,
     dry \in BOOLEAN, force \in BOOLEAN, taken \in BOOLEAN}

\* the working directory as root and as output, with the year directory of an
\* earlier run in it
OverlapFS(earlier) ==
    MakeFS({[path |-> <<"a", "x.txt">>, id |-> 1, mtime |-> T2020]}
           \cup (IF earlier
                 THEN {[path |-> <<"2020", "a", "x.txt">>, id |-> 2, mtime |-> T2020]}
                 ELSE {}), {<<"2020">>})

OverlapConfigs ==
    {[args |-> [arg_directory    |-> << <<".">> >>,
                flag_oldest      |-> FALSE,
                flag_newest      |-> FALSE,
                flag_pattern     |-> <<>>,
                flag_not_pattern |-> <<>>,
                flag_output_dir  |-> <<".">>,
                flag_strip       |-> strip,
                flag_dry_run     |-> FALSE,
                flag_force       |-> force,
                flag_version     |-> FALSE],
      fs   |-> OverlapFS(earlier)] :
     strip \in 0..1, force \in BOOLEAN, earlier \in BOOLEAN}

\* --version, and --oldest with --newest
FlagConfigs ==
    {[args |-> [arg_directory    |-> << <<"a">> >>,
                flag_oldest      |-> both,
                flag_newest      |-> both,
                flag_pattern     |-> <<>>,
                flag_not_pattern |-> <<>>,
                flag_output_dir  |-> <<".">>,
                flag_strip       |-> 0,
                flag_dry_run     |-> FALSE,
                flag_force       |-> FALSE,
                flag_version     |-> ~both],
      fs   |-> FilterFS] :
     both \in BOOLEAN}

Configs ==
    WalkConfigs \cup FilterConfigs \cup MoveConfigs \cup OverlapConfigs \cup FlagConfigs

Init ==
    /\ \E c \in Configs :
        /\ args = c.args
        /\ files = c.fs.files
        /\ dirs = c.fs.dirs
        /\ fs0 = c.fs
    /\ pc = "start"
    /\ agepolicy = "Default"
    /\ dirIdx = 0
    /\ stack = <<>>
    /\ curfiles = <<>>
    /\ curtimes = <<>>
    /\ datetime = Epoch
    /\ errors = 0
    /\ main_errors = 0
    /\ exit_code = -1
    /\ stdout = <<>>
    /\ under = {}
    /\ yielded = <<>>
    /\ calls = <<>>

Spec == Init /\ [][Next]_vars

---------------------------------------------------------------------------
(* Notions the properties share.                                           *)

\* the elements handed to move_batch so far, as [c |-> call, k |-> position]
Handed ==
    UNION {{[c |-> c, k |-> k] : k \in 1..Len(calls[c].batch)} : c \in 1..Len(calls)}

Src(h) == calls[h.c].batch[h.k][1]

Rec(h) == calls[h.c].log[h.k]

Policy == age_policy(args.flag_oldest, args.flag_newest)

Finished == pc = "exit" /\ ~args.flag_version

\* position of the entry of path e in the history of the walk of root i
YieldPos(i, e) ==
    CHOOSE n \in 1..Len(yielded) : yielded[n].root = i /\ yielded[n].path = e

---------------------------------------------------------------------------
(* C2.                                                                     *)

\* C2 (as claimed): at every flush of a non-empty batch the timestamp handed to
\* move_batch is the minimum of the members' mtimes under Oldest and Default,
\* and their maximum under Newest, whatever the mtimes are.
C2_ExtremeOfMembers ==
    \A c \in 1..Len(calls) :
        calls[c].batch # <<>> =>
            /\ calls[c].datetime \in Range(calls[c].times)
            /\ \A m \in Range(calls[c].times) :
                   IF Policy = "Newest" THEN DtLeq(m, calls[c].datetime)
                   ELSE DtLeq(calls[c].datetime, m)

---------------------------------------------------------------------------
(* C3.                                                                     *)

\* the scenario: root a/ holding a/x.txt of 2020 and a/sub/y.txt of 2021,
\* --oldest, --strip=0, --output-dir=out
C3_Scenario ==
    /\ args.arg_directory = << <<"a">> >>
    /\ Policy = "Oldest"
    /\ args.flag_strip = 0
    /\ args.flag_output_dir = <<"out">>
    /\ args.flag_pattern = <<>> /\ args.flag_not_pattern = <<>>
    /\ ~args.flag_dry_run
    /\ DOMAIN fs0.files = {<<"a", "x.txt">>, <<"a", "sub", "y.txt">>}
    /\ fs0.files[<<"a", "x.txt">>] = [id |-> 1, mtime |-> T2020]
    /\ fs0.files[<<"a", "sub", "y.txt">>] = [id |-> 2, mtime |-> T2021]

C3_InOneBatch ==
    \E c \in 1..Len(calls) :
        {<<"a", "x.txt">>, <<"a", "sub", "y.txt">>} \subseteq
            {calls[c].batch[k][1] : k \in 1..Len(calls[c].batch)}

C3_SubFirst ==
    YieldPos(1, <<"a", "sub">>) < YieldPos(1, <<"a", "x.txt">>)

\* C3 (as claimed): in the scenario both files land in one batch, in every
\* order of the root's entries, and are moved to out/2020/a/x.txt and
\* out/2020/a/sub/y.txt.
C3_Original ==
    (C3_Scenario /\ Finished) =>
        /\ C3_InOneBatch
        /\ ContentAt(FS, <<"out", "2020", "a", "x.txt">>) = 1
        /\ ContentAt(FS, <<"out", "2020", "a", "sub", "y.txt">>) = 2

\* C3 (amended): in the scenario x.txt is moved to out/2020/a/x.txt in every
\* order; when the walker yields a/sub before a/x.txt both files are in one
\* batch and y.txt is moved to out/2020/a/sub/y.txt; when it yields a/x.txt
\* first, the flush at a/sub moves x.txt alone and y.txt is moved, alone, to
\* out/2021/a/sub/y.txt.
C3_Amended ==
    (C3_Scenario /\ Finished) =>
        /\ ContentAt(FS, <<"out", "2020", "a", "x.txt">>) = 1
        /\ DOMAIN files = {<<"out", "2020", "a", "x.txt">>,
                           IF C3_SubFirst
                           THEN <<"out", "2020", "a", "sub", "y.txt">>
                           ELSE <<"out", "2021", "a", "sub", "y.txt">>}
        /\ C3_SubFirst <=> C3_InOneBatch
        /\ C3_SubFirst =>
               ContentAt(FS, <<"out", "2020", "a", "sub", "y.txt">>) = 2
        /\ ~C3_SubFirst =>
               /\ ContentAt(FS, <<"out", "2021", "a", "sub", "y.txt">>) = 2
               /\ \E c \in 1..Len(calls) :
                      /\ calls[c].trigger = <<"a", "sub">>
                      /\ calls[c].batch = << << <<"a", "x.txt">>, <<"a", "x.txt">> >> >>
        /\ main_errors = 0

\* the scenario has run to its end, a/x.txt having been yielded before a/sub
C3_Witness ==
    C3_Scenario /\ Finished /\ ~C3_SubFirst /\ Len(calls) = 3

\* the scenario has run to its end, a/sub having been yielded before a/x.txt
C3_WitnessSubFirst ==
    C3_Scenario /\ Finished /\ C3_SubFirst /\ C3_InOneBatch

---------------------------------------------------------------------------
(* C4.                                                                     *)

\* the depth of the file or directory src in the walk of root i
DepthIn(i, src) == Len(src) - Len(args.arg_directory[i])

\* C4 (as claimed): every directory of depth <= 2 is a batch of its own: no
\* call of move_batch holds two files lying directly in two distinct
\* directories of depth <= 2, so the mtime of the one never enters the year of
\* the other.
C4_OwnBatch ==
    \A c \in 1..Len(calls) :
        \A k1, k2 \in 1..Len(calls[c].batch) :
            LET f1 == calls[c].batch[k1][1]
                f2 == calls[c].batch[k2][1]
            IN  (/\ DepthIn(calls[c].root, f1) <= 3
                 /\ DepthIn(calls[c].root, f2) <= 3)
                => Parent(f1) = Parent(f2)

---------------------------------------------------------------------------
(* C1.                                                                     *)

\* how often the file at resolved path q was handed to move_batch in walk i
HandedCount(i, q) ==
    Cardinality({h \in Handed : calls[h.c].root = i /\ Canon(Src(h)) = q})

\* how often it is in the batch that is open
PendingCount(i, q) ==
    IF pc = "walk" /\ dirIdx + 1 = i
    THEN Cardinality({k \in 1..Len(curfiles) : Canon(curfiles[k][1]) = q})
    ELSE 0

---------------------------------------------------------------------------
(* C5.                                                                     *)

\* C5: with --dry-run the filesystem stays as it was, every call of move_batch
\* returns 0 and the totals stay 0, and every pair handed to move_batch is
\* printed.
C5_DryRun ==
    args.flag_dry_run =>
        /\ files = fs0.files
        /\ dirs = fs0.dirs
        /\ errors = 0 /\ main_errors = 0
        /\ \A c \in 1..Len(calls) : calls[c].errors = 0
        /\ pc = "exit" => exit_code = 0
        /\ Len(stdout) = Cardinality(Handed)
        /\ \A h \in Handed :
               \E n \in 1..Len(stdout) : stdout[n] = <<Src(h), Rec(h).fin>>

\* a dry run without --force that came to its end after printing a move whose
\* destination exists
C5_Witness ==
    /\ args.flag_dry_run /\ ~args.flag_force
    /\ Finished
    /\ \E h \in Handed : Rec(h).dstBefore # 0 /\ Rec(h).srcBefore # 0

---------------------------------------------------------------------------
(* C6.                                                                     *)

\* C6: a move whose destination exists, without --force and --dry-run, fails,
\* leaves the filesystem (source and destination) as it was and adds exactly
\* one to the error count of its batch.
C6_Conflict ==
    /\ \A h \in Handed :
           (Rec(h).attempted /\ Rec(h).existed /\ ~args.flag_force) =>
               /\ ~Rec(h).ok
               /\ Rec(h).filesSame /\ Rec(h).dirsSame
               /\ Rec(h).srcAfter = Rec(h).srcBefore
               /\ Rec(h).dstAfter = Rec(h).dstBefore
    /\ \A c \in 1..Len(calls) :
           calls[c].errors =
               Cardinality({k \in 1..Len(calls[c].log) : ~calls[c].log[k].ok})

\* a move without --force was refused because another file is at its destination
C6_Witness ==
    /\ ~args.flag_force
    /\ \E h \in Handed :
           /\ Rec(h).attempted /\ Rec(h).existed
           /\ Rec(h).srcBefore # 0 /\ Rec(h).dstBefore # 0
           /\ Rec(h).srcBefore # Rec(h).dstBefore
           /\ calls[h.c].errors >= 1

---------------------------------------------------------------------------
(* C7.                                                                     *)

\* C7 (as claimed): the destination of every matched file is
\* output_dir/<year>/<p>, p being the file's path as the walk of the root
\* reports it, less its first --strip components, for every form of the root.
C7_Destination ==
    \A h \in Handed :
        Canon(Rec(h).fin) =
            Canon(args.flag_output_dir
                  \o <<ToString(year(calls[h.c].datetime))>>
                  \o Drop(Src(h), args.flag_strip))

---------------------------------------------------------------------------
(* C8.                                                                     *)

Failed == {h \in Handed : ~Rec(h).ok}

\* C8: a failed move stops nothing: every element of every batch of every root
\* is attempted, the total is the number of moves that failed, and the exit
\* code is 1 exactly when that number is positive.
C8_ErrorTotal ==
    /\ \A c \in 1..Len(calls) :
           /\ Len(calls[c].log) = Len(calls[c].batch)
           /\ ~args.flag_dry_run =>
                  \A k \in 1..Len(calls[c].log) : calls[c].log[k].attempted
    /\ pc \in {"main", "exit"} => main_errors = Cardinality(Failed)
    /\ Finished =>
           /\ exit_code = IF Cardinality(Failed) > 0 THEN 1 ELSE 0
           /\ \A i \in 1..Len(args.arg_directory) :
                  \E c \in 1..Len(calls) :
                      calls[c].root = i /\ calls[c].trigger = <<"end">>
           /\ \A n \in 1..Len(yielded) :
                  yielded[n].added =>
                      \E h \in Handed :
                          /\ calls[h.c].root = yielded[n].root
                          /\ Src(h) = yielded[n].path

\* a run that exits with 1 in which a failed move was followed by a successful
\* one in the same batch and by a successful one in a later root
C8_Witness ==
    /\ Finished /\ exit_code = 1
    /\ \E h1, h2, h3 \in Handed :
           /\ ~Rec(h1).ok
           /\ h2.c = h1.c /\ h2.k > h1.k /\ Rec(h2).ok /\ Rec(h2).srcAfter = 0
           /\ calls[h3.c].root > calls[h1.c].root
           /\ Rec(h3).ok /\ Rec(h3).srcAfter = 0

\* a run in which no file matched exits with 0
C8_WitnessNoMatch ==
    Finished /\ exit_code = 0 /\ Handed = {} /\ Len(yielded) > 1

---------------------------------------------------------------------------
(* C9.                                                                     *)

\* C9: a file is added to the batch exactly when its name matches an include
\* pattern ("*" when there is none) and no exclude pattern; a file passed
\* over leaves the batch and its timestamp as they were.
C9_Filter ==
    /\ \A n \in 1..Len(yielded) :
           yielded[n].kind = "file" =>
               LET name == Last(yielded[n].path)
                   inc  == IF args.flag_pattern = <<>> THEN {"*"}
                           ELSE Range(args.flag_pattern)
                   exc  == Range(args.flag_not_pattern)
               IN  /\ yielded[n].added <=>
                          /\ \E i \in inc : matches(i, name)
                          /\ ~\E x \in exc : matches(x, name)
                   /\ ~yielded[n].added =>
                          /\ yielded[n].curAfter = yielded[n].curBefore
                          /\ yielded[n].dtAfter = yielded[n].dtBefore
                   /\ yielded[n].added =>
                          /\ Len(yielded[n].curAfter) = Len(yielded[n].curBefore) + 1
                          /\ Last(yielded[n].curAfter)[1] = yielded[n].path
                   /\ (args.flag_pattern = <<"*.jpg">>
                         /\ args.flag_not_pattern = <<"*_thumb.jpg">>) =>
                          (yielded[n].added <=> name = "photo.jpg")
                   /\ (args.flag_pattern = <<>> /\ args.flag_not_pattern = <<>>) =>
                          yielded[n].added

\* with --pattern=*.jpg --not-pattern=*_thumb.jpg, photo_thumb.jpg was passed
\* over while photo.jpg was in the batch
C9_Witness ==
    /\ args.flag_pattern = <<"*.jpg">>
    /\ args.flag_not_pattern = <<"*_thumb.jpg">>
    /\ \E n \in 1..Len(yielded) :
           /\ Last(yielded[n].path) = "photo_thumb.jpg"
           /\ ~yielded[n].added
           /\ yielded[n].curBefore # <<>>
           /\ yielded[n].curAfter = yielded[n].curBefore

---------------------------------------------------------------------------
(* C10.                                                                    *)

PathsOf(id) == {q \in DOMAIN files : files[q].id = id}

\* C10: without --force a file is renamed only onto a path where nothing is;
\* every file that was there before the run is still there, unchanged, at
\* exactly one path: the one it had, or the destination of a move that
\* carried it.
C10_NoLoss ==
    ~args.flag_force =>
        /\ \A q0 \in DOMAIN fs0.files :
               /\ Cardinality(PathsOf(fs0.files[q0].id)) = 1
               /\ \A q \in PathsOf(fs0.files[q0].id) :
                      /\ files[q] = fs0.files[q0]
                      /\ \/ q = q0
                         \/ \E h \in Handed :
                                /\ Rec(h).attempted /\ Rec(h).ok
                                /\ Rec(h).srcBefore = fs0.files[q0].id
                                /\ Canon(Rec(h).fin) = q
        /\ Cardinality(DOMAIN files) = Cardinality(DOMAIN fs0.files)
        /\ \A h \in Handed :
               (Rec(h).attempted /\ Rec(h).ok) =>
                   ~Rec(h).existed /\ Rec(h).dstBefore = 0

\* without --force two moves computed the same destination: the first was
\* carried out and the second refused
C10_Witness ==
    /\ ~args.flag_force
    /\ Finished
    /\ \E h1, h2 \in Handed :
           /\ h1 # h2
           /\ Canon(Rec(h1).fin) = Canon(Rec(h2).fin)
           /\ Rec(h1).ok /\ Rec(h1).srcAfter = 0
           /\ ~Rec(h2).ok /\ Rec(h2).srcAfter = Rec(h2).srcBefore
           /\ Rec(h2).dstBefore = Rec(h1).srcBefore

\* without --force a destination was the source itself and the move refused
C10_WitnessSelf ==
    /\ ~args.flag_force
    /\ \E h \in Handed :
           Rec(h).attempted /\ Canon(Rec(h).fin) = Canon(Src(h)) /\ ~Rec(h).ok

===========================================================================
